---------------------------- MODULE Spec2Model ----------------------------
(* A model of mononoke's path types (mononoke-types/src/path.rs), the      *)
(* path-conflict-freedom scan check_pcf, and the Mercurial changeset       *)
(* envelope (mercurial/src/envelope/changeset_envelope.rs).                *)
(*                                                                         *)
(* Bytes are naturals 0..255.  Vec<u8> is a sequence of bytes.             *)
(* Option<T> is a sequence of length 0 (None) or 1 (Some).                 *)
(* Result<T> is a record [ok, val, err]; err is the failure's context      *)
(* chain, outermost context first.  The lossy text rendering of the input  *)
(* that InvalidPath carries is not modelled, only the error kind and its   *)
(* message.                                                                *)
EXTENDS Integers, Sequences, FiniteSets, TLC

VARIABLES
    path,      \* Option<MPath>: the MPath returned by the last path-producing call
    elem,      \* Option<MPathElement>: the element returned by the last call
    res,       \* the last call: [op, recv, arg, out]
    sorted_paths,       \* check_pcf: the (path, is_changed) pairs handed in
    pos,                \* check_pcf: how many pairs the loop has taken
    last_changed_path,  \* check_pcf: Option<&MPath>
    pcf_pc,             \* check_pcf: "idle", "loop" or "done"
    pcf_out,            \* check_pcf: the Result returned
    env,       \* Option<HgChangesetEnvelope>: the envelope returned by the last call
    env_res,   \* the last envelope call: [op, recv, arg, out]
    repo,      \* Option<RepoPath>: the RepoPath returned by the last constructor
    repo_res   \* the last RepoPath call: [op, recv, arg, out]

pathVars == <<path, elem, res>>
pcfVars == <<sorted_paths, pos, last_changed_path, pcf_pc, pcf_out>>
envVars == <<env, env_res>>
repoVars == <<repo, repo_res>>
vars == <<pathVars, pcfVars, envVars, repoVars>>

-----------------------------------------------------------------------------
(* Bytes the code singles out. *)
NUL == 0
SOH == 1
NL == 10
SLASH == 47

(* Two ordinary bytes, one below and one above '/': '.' and '0'. *)
DOT == 46
ZERO == 48
GoodBytes == {DOT, ZERO}
Alphabet == {NUL, SOH, NL, SLASH} \cup GoodBytes

(* Bounds of the model. *)
MaxLen == 3          \* longest raw byte string handed to a constructor
MaxElemLen == 1      \* longest element of a wire path
MaxWireElems == 2    \* most elements of a wire path
MaxJoin == 1         \* most elements appended by one join
MaxJoinSeq == 2      \* most elements appended by one join, in the join specification
MaxExtend == 1       \* most bytes one extend appends
MaxOtherRaw == 3     \* longest raw string the other path of a comparison is built from
MaxComponents == 3   \* join does not build a longer path
MaxPcfRaw == 4       \* longest raw string a check_pcf path is built from
MaxPcfLen == 3       \* most pairs handed to check_pcf
MaxContents == 1     \* longest envelope contents
MaxCut == 2          \* most bytes cut off the end of a blob
UsizeBits == 16      \* width of the modelled usize (every length is far below it)

BoundedSeq(S, n) == UNION {[1..k -> S] : k \in 0..n}
RawStrings == BoundedSeq(Alphabet, MaxLen)

-----------------------------------------------------------------------------
(* Option and Result *)
None == <<>>
Some(x) == <<x>>
IsSome(o) == Len(o) = 1
Unwrap(o) == o[1]

Ok(v) == [ok |-> TRUE, val |-> v, err |-> <<>>]
Err(chain) == [ok |-> FALSE, val |-> <<>>, err |-> chain]
Context(r, c) == IF r.ok THEN r ELSE Err(<<c>> \o r.err)

Contains(p, b) == \E i \in 1..Len(p) : p[i] = b

-----------------------------------------------------------------------------
(* MPathElement: the tuple struct MPathElement(Vec<u8>), a 1-tuple.        *)
(* thrift::MPathElement and thrift::MPath are the wire newtypes.           *)
MPathElement(bytes) == <<bytes>>
thrift_MPathElement(bytes) == [wire |-> bytes]
thrift_MPath(elems) == [wire |-> elems]

(* Faulty variant: the newline rule is forgotten. *)
MPathElement_verify_no_newline(p) ==
    IF Len(p) = 0 THEN Err(<<"InvalidPath: path elements cannot be empty">>)
    ELSE IF Contains(p, NUL) THEN Err(<<"InvalidPath: path elements cannot contain '\\0'">>)
    ELSE IF Contains(p, SOH) THEN Err(<<"InvalidPath: path elements cannot contain '\\1'">>)
    ELSE IF Contains(p, SLASH) THEN Err(<<"InvalidPath: path elements cannot contain '/'">>)
    ELSE Ok(<<>>)

MPathElement_verify(p) ==
    IF Len(p) = 0 THEN Err(<<"InvalidPath: path elements cannot be empty">>)
    ELSE IF Contains(p, NUL) THEN Err(<<"InvalidPath: path elements cannot contain '\\0'">>)
    ELSE IF Contains(p, SOH) THEN Err(<<"InvalidPath: path elements cannot contain '\\1'">>)
    ELSE IF Contains(p, SLASH) THEN Err(<<"InvalidPath: path elements cannot contain '/'">>)
    ELSE IF Contains(p, NL) THEN Err(<<"InvalidPath: path elements cannot contain '\\n'">>)
    ELSE Ok(<<>>)

MPathElement_new(element) ==
    LET v == MPathElement_verify(element)
    IN  IF ~v.ok THEN v ELSE Ok(MPathElement(element))

(* Faulty variant: the wire bytes are taken without verification. *)
MPathElement_from_thrift_unverified(element) == Ok(MPathElement(element.wire))

MPathElement_from_thrift(element) ==
    LET v == Context(MPathElement_verify(element.wire),
                     "InvalidThrift: MPathElement: invalid path element")
    IN  IF ~v.ok THEN v ELSE Ok(MPathElement(element.wire))

(* self.0.extend(toappend.iter()): the bytes are appended as they are. *)
MPathElement_extend(self, toappend) == MPathElement(self[1] \o toappend)

MPathElement_len(e) == Len(e[1])

MPathElement_into_thrift(e) == thrift_MPathElement(e[1])

-----------------------------------------------------------------------------
(* MPath: struct MPath { elements: Vec<MPathElement> } *)
MPath(elements) == [elements |-> elements]

(* Faulty variant: the '\1' rule is forgotten. *)
MPath_verify_no_soh(p) ==
    IF Contains(p, NUL) THEN Err(<<"InvalidPath: paths cannot contain '\\0'">>)
    ELSE IF Contains(p, NL) THEN Err(<<"InvalidPath: paths cannot contain '\\n'">>)
    ELSE Ok(<<>>)

MPath_verify(p) ==
    IF Contains(p, NUL) THEN Err(<<"InvalidPath: paths cannot contain '\\0'">>)
    ELSE IF Contains(p, SOH) THEN Err(<<"InvalidPath: paths cannot contain '\\1'">>)
    ELSE IF Contains(p, NL) THEN Err(<<"InvalidPath: paths cannot contain '\\n'">>)
    ELSE Ok(<<>>)

(* slice::split(|c| *c == b'/'): the segments between separators, empty    *)
(* ones included; an empty slice yields one empty segment.                 *)
RECURSIVE SplitSlash(_)
SplitSlash(p) ==
    IF ~Contains(p, SLASH) THEN <<p>>
    ELSE LET k == CHOOSE i \in 1..Len(p) :
                      p[i] = SLASH /\ \A j \in 1..(i - 1) : p[j] # SLASH
         IN  <<SubSeq(p, 1, k - 1)>> \o SplitSlash(SubSeq(p, k + 1, Len(p)))

NonEmptySegment(e) == Len(e) # 0

MapSeq(s, Op(_)) == [i \in 1..Len(s) |-> Op(s[i])]

MPath_new(p) ==
    LET v == MPath_verify(p)
        elements == MapSeq(SelectSeq(SplitSlash(p), NonEmptySegment), MPathElement)
    IN  IF ~v.ok THEN v
        ELSE IF Len(elements) = 0 THEN Err(<<"InvalidPath: path cannot be empty">>)
        ELSE Ok(MPath(elements))

(* collect::<Result<Vec<_>>>(): the first failing element's error, else    *)
(* all the decoded elements.                                               *)
MPath_from_thrift(mpath) ==
    LET rs == MapSeq(mpath.wire, MPathElement_from_thrift)
        bad == {i \in 1..Len(rs) : ~rs[i].ok}
    IN  IF bad # {} THEN rs[CHOOSE i \in bad : \A j \in bad : i <= j]
        ELSE Ok(MPath([i \in 1..Len(rs) |-> rs[i].val]))

ElemNonEmpty(e) == Len(e[1]) # 0

(* Faulty variant: the zero-length elements are appended too. *)
MPath_join_unfiltered(self, another) == MPath(self.elements \o another)

MPath_join(self, another) ==
    MPath(self.elements \o SelectSeq(another, ElemNonEmpty))

MPath_join_element(self, element) ==
    IF IsSome(element) THEN MPath_join(self, <<Unwrap(element)>>) ELSE self

MPath_join_opt(p, another) ==
    IF IsSome(p) THEN Some(MPath_join(Unwrap(p), another))
    ELSE LET elements == SelectSeq(another, ElemNonEmpty)
         IN  IF Len(elements) = 0 THEN None ELSE Some(MPath(elements))

MPath_join_opt_element(p, element) ==
    IF IsSome(p) THEN MPath_join_element(Unwrap(p), Some(element))
    ELSE MPath(<<element>>)

MPath_join_element_opt(p, element) ==
    IF IsSome(element) THEN MPath_join_opt(p, <<Unwrap(element)>>) ELSE p

MPath_from_element(element) == MPath(<<element>>)

MPath_num_components(self) == Len(self.elements)

(* Outcome of a call that can panic: [panic, val]. *)
Returned(v) == [panic |-> FALSE, val |-> v]
Panic(msg) == [panic |-> TRUE, val |-> msg]

MPath_basename(self) ==
    IF Len(self.elements) = 0 THEN Panic("MPaths have at least one component")
    ELSE Returned(self.elements[Len(self.elements)])

(* Faulty variant: taking every component is refused as well. *)
MPath_take_prefix_components_refuses_all(self, components) ==
    IF components = 0 THEN Ok(None)
    ELSE IF components >= MPath_num_components(self)
         THEN Err(<<"taking more components than the path has">>)
    ELSE Ok(Some(MPath(SubSeq(self.elements, 1, components))))

MPath_take_prefix_components(self, components) ==
    IF components = 0 THEN Ok(None)
    ELSE IF components > MPath_num_components(self)
         THEN Err(<<"taking more components than the path has">>)
    ELSE Ok(Some(MPath(SubSeq(self.elements, 1, components))))

MPath_from_elements(elements) == MPath(elements)

MPath_split_dirname(self) ==
    IF Len(self.elements) = 0 THEN Panic("MPaths should never be empty")
    ELSE LET n == Len(self.elements)
             filename == self.elements[n]
             dirname_elements == SubSeq(self.elements, 1, n - 1)
         IN  IF Len(dirname_elements) = 0 THEN Returned(<<None, filename>>)
             ELSE Returned(<<Some(MPath_from_elements(dirname_elements)), filename>>)

(* [&[u8]]::join(&b'/') *)
RECURSIVE JoinSlash(_)
JoinSlash(segs) ==
    IF Len(segs) = 0 THEN <<>>
    ELSE IF Len(segs) = 1 THEN segs[1]
    ELSE segs[1] \o <<SLASH>> \o JoinSlash(Tail(segs))

ElemBytes(e) == e[1]

MPath_to_vec(self) == JoinSlash(MapSeq(self.elements, ElemBytes))

RECURSIVE SumLens(_)
SumLens(elements) ==
    IF Len(elements) = 0 THEN 0
    ELSE MPathElement_len(elements[1]) + SumLens(Tail(elements))

(* usize arithmetic.  `elements.len() - 1` on an empty vector overflows:   *)
(* a build with overflow checks panics, a build without wraps around.      *)
UsizeModulus == 2 ^ UsizeBits

MPath_len(self, overflow_checks) ==
    LET n == Len(self.elements)
        elem_len == SumLens(self.elements)
    IN  IF n - 1 < 0 /\ overflow_checks
        THEN Panic("attempt to subtract with overflow")
        ELSE LET slashes == (n - 1) % UsizeModulus
             IN  IF slashes + elem_len >= UsizeModulus /\ overflow_checks
                 THEN Panic("attempt to add with overflow")
                 ELSE Returned((slashes + elem_len) % UsizeModulus)

(* Faulty variant: the whole path is encoded as one wire element. *)
MPath_into_thrift_joined(self) ==
    thrift_MPath(<<thrift_MPathElement(MPath_to_vec(self))>>)

MPath_into_thrift(self) ==
    thrift_MPath(MapSeq(self.elements, MPathElement_into_thrift))

-----------------------------------------------------------------------------
(* #[derive(Ord)]: Vec<u8> and Vec<MPathElement> compare lexicographically, *)
(* a proper prefix sorting first.                                          *)
BytesLt(a, b) ==
    \E k \in 1..Len(b) :
        /\ k - 1 <= Len(a)
        /\ \A i \in 1..(k - 1) : a[i] = b[i]
        /\ (Len(a) = k - 1 \/ a[k] < b[k])

MPathElement_lt(e, f) == BytesLt(e[1], f[1])

(* Faulty variant: paths are ordered by their '/'-joined bytes. *)
MPath_lt_joined_bytes(p, q) == BytesLt(MPath_to_vec(p), MPath_to_vec(q))

MPath_lt(p, q) ==
    \E k \in 1..Len(q.elements) :
        /\ k - 1 <= Len(p.elements)
        /\ \A i \in 1..(k - 1) : p.elements[i] = q.elements[i]
        /\ (Len(p.elements) = k - 1 \/ MPathElement_lt(p.elements[k], q.elements[k]))

MPath_le(p, q) == p = q \/ MPath_lt(p, q)

(* zip, take_while equal, count *)
MPath_common_components(self, other) ==
    LET n == IF Len(self.elements) < Len(other) THEN Len(self.elements) ELSE Len(other)
        differ == {i \in 1..n : self.elements[i] # other[i]}
    IN  IF differ = {} THEN n
        ELSE (CHOOSE i \in differ : \A j \in differ : i <= j) - 1

(* Faulty variant: the prefix test is made on the '/'-joined bytes. *)
MPath_is_prefix_of_bytes(self, other) ==
    LET a == MPath_to_vec(self)
        b == JoinSlash([i \in 1..Len(other) |-> other[i][1]])
    IN  Len(a) <= Len(b) /\ SubSeq(b, 1, Len(a)) = a

MPath_is_prefix_of(self, other) ==
    MPath_common_components(self, other) = MPath_num_components(self)

(* One iteration of check_pcf's loop body on the pair `item`, with the    *)
(* current last_changed_path: the error it bails with, or the new          *)
(* last_changed_path.                                                      *)
NotPathConflictFree(a, d) ==
    [ok |-> FALSE, val |-> <<a, d>>, err |-> <<"NotPathConflictFree">>]

(* Faulty variant: last_changed_path is updated whatever is_changed is. *)
check_pcf_body_always_update(last, item) ==
    IF IsSome(last) /\ MPath_is_prefix_of(Unwrap(last), item.path.elements)
    THEN NotPathConflictFree(Unwrap(last), item.path)
    ELSE Ok(Some(item.path))

(* Faulty variant: the prefix test is left out. *)
check_pcf_body_never_fails(last, item) ==
    Ok(IF item.is_changed THEN Some(item.path) ELSE last)

check_pcf_body(last, item) ==
    IF IsSome(last) /\ MPath_is_prefix_of(Unwrap(last), item.path.elements)
    THEN NotPathConflictFree(Unwrap(last), item.path)
    ELSE Ok(IF item.is_changed THEN Some(item.path) ELSE last)

-----------------------------------------------------------------------------
(* RepoPath: enum { RootPath, DirectoryPath(MPath), FilePath(MPath) }, a  *)
(* tag and the MPath the variant carries (none for RootPath).             *)
RootPath == [tag |-> "RootPath", carried |-> None]
DirectoryPath(p) == [tag |-> "DirectoryPath", carried |-> Some(p)]
FilePath(p) == [tag |-> "FilePath", carried |-> Some(p)]

(* P: TryInto<MPath>.  A byte string or str goes through MPath::new; an   *)
(* MPath converts to itself and cannot fail.                              *)
PathBytes(b) == [kind |-> "bytes", val |-> b]
PathMPath(p) == [kind |-> "mpath", val |-> p]
try_into_MPath(x) == IF x.kind = "bytes" THEN MPath_new(x.val) ELSE Ok(x.val)

RepoPath_root == RootPath

RepoPath_dir(x) ==
    LET r == try_into_MPath(x)
    IN  IF ~r.ok THEN r ELSE Ok(DirectoryPath(r.val))

(* Faulty variant: a file is wrapped as a directory. *)
RepoPath_file_as_dir(x) == RepoPath_dir(x)

RepoPath_file(x) ==
    LET r == try_into_MPath(x)
    IN  IF ~r.ok THEN r ELSE Ok(FilePath(r.val))

RepoPath_is_root(self) == self.tag = "RootPath"
RepoPath_is_dir(self) == self.tag = "DirectoryPath"
RepoPath_is_tree(self) == self.tag = "RootPath" \/ self.tag = "DirectoryPath"
RepoPath_is_file(self) == self.tag = "FilePath"

RepoPath_len(self, overflow_checks) ==
    IF self.tag = "RootPath" THEN Returned(0)
    ELSE MPath_len(Unwrap(self.carried), overflow_checks)

RepoPath_mpath(self) ==
    IF self.tag = "RootPath" THEN None ELSE Some(Unwrap(self.carried))

RepoPath_into_mpath(self) ==
    IF self.tag = "RootPath" THEN None ELSE Some(Unwrap(self.carried))

(* #[derive(PartialEq)]: same variant and equal carried paths. *)
RepoPath_eq(a, b) ==
    /\ a.tag = b.tag
    /\ a.tag # "RootPath" => Unwrap(a.carried) = Unwrap(b.carried)

-----------------------------------------------------------------------------
(* HgNodeHash (nodehash.rs, not among the sources): a Sha1 of exactly     *)
(* Sha1Len bytes; from_thrift rejects any other length.                   *)
Sha1Len == 20

HgNodeHash(bytes) == [sha1 |-> bytes]
thrift_HgNodeHash(bytes) == [wire |-> bytes]

HgNodeHash_from_thrift(h) ==
    IF Len(h.wire) # Sha1Len THEN Err(<<"InvalidThrift: Sha1: wrong length">>)
    ELSE Ok(HgNodeHash(h.wire))

HgNodeHash_from_thrift_opt(h) ==
    IF ~IsSome(h) THEN Ok(None)
    ELSE LET r == HgNodeHash_from_thrift(Unwrap(h))
         IN  IF ~r.ok THEN r ELSE Ok(Some(r.val))

HgNodeHash_into_thrift(h) == thrift_HgNodeHash(h.sha1)

(* The envelope types. *)
HgChangesetEnvelopeMut(node_id, p1, p2, contents) ==
    [node_id |-> node_id, p1 |-> p1, p2 |-> p2, contents |-> contents]

thrift_HgChangesetEnvelope(node_id, p1, p2, contents) ==
    [t_node_id |-> node_id, t_p1 |-> p1, t_p2 |-> p2, t_contents |-> contents]

HgChangesetEnvelopeMut_freeze(self) == [inner |-> self]

HgChangesetEnvelope_into_mut(self) == self.inner

InvalidEnvelope == "InvalidThrift: HgChangesetEnvelope: Invalid Changeset envelope"

(* Faulty variant: an absent contents field is read as empty contents. *)
HgChangesetEnvelope_from_thrift_default_contents(fe) ==
    LET node_id == HgNodeHash_from_thrift(fe.t_node_id)
        p1 == HgNodeHash_from_thrift_opt(fe.t_p1)
        p2 == HgNodeHash_from_thrift_opt(fe.t_p2)
    IN  IF ~node_id.ok THEN Context(node_id, InvalidEnvelope)
        ELSE IF ~p1.ok THEN Context(p1, InvalidEnvelope)
        ELSE IF ~p2.ok THEN Context(p2, InvalidEnvelope)
        ELSE Ok([inner |-> HgChangesetEnvelopeMut(node_id.val, p1.val, p2.val,
                     IF IsSome(fe.t_contents) THEN Unwrap(fe.t_contents) ELSE <<>>)])

(* The fields are decoded in order; the first failure is returned, under  *)
(* the InvalidThrift context.                                             *)
HgChangesetEnvelope_from_thrift(fe) ==
    LET node_id == HgNodeHash_from_thrift(fe.t_node_id)
        p1 == HgNodeHash_from_thrift_opt(fe.t_p1)
        p2 == HgNodeHash_from_thrift_opt(fe.t_p2)
    IN  IF ~node_id.ok THEN Context(node_id, InvalidEnvelope)
        ELSE IF ~p1.ok THEN Context(p1, InvalidEnvelope)
        ELSE IF ~p2.ok THEN Context(p2, InvalidEnvelope)
        ELSE IF ~IsSome(fe.t_contents)
             THEN Context(Err(<<"missing contents field">>), InvalidEnvelope)
        ELSE Ok([inner |-> HgChangesetEnvelopeMut(node_id.val, p1.val, p2.val,
                                                  Unwrap(fe.t_contents))])

OptMap(o, Op(_)) == IF IsSome(o) THEN Some(Op(Unwrap(o))) ELSE None

(* Faulty variant: the parents are written in each other's place. *)
HgChangesetEnvelope_into_thrift_swapped(self) ==
    thrift_HgChangesetEnvelope(
        HgNodeHash_into_thrift(self.inner.node_id),
        OptMap(self.inner.p2, HgNodeHash_into_thrift),
        OptMap(self.inner.p1, HgNodeHash_into_thrift),
        Some(self.inner.contents))

HgChangesetEnvelope_into_thrift(self) ==
    thrift_HgChangesetEnvelope(
        HgNodeHash_into_thrift(self.inner.node_id),
        OptMap(self.inner.p1, HgNodeHash_into_thrift),
        OptMap(self.inner.p2, HgNodeHash_into_thrift),
        Some(self.inner.contents))

(* The compact binary codec (rust_thrift::compact_protocol) for the wire  *)
(* struct {1: node_id, 2: optional p1, 3: optional p2, 4: optional        *)
(* contents}, all binary.  A field is a header byte (id delta * 16 + type *)
(* code), a varint length and the bytes; a zero byte ends the struct.     *)
CT_BINARY == 8
CT_STOP == 0

RECURSIVE write_varint(_)
write_varint(n) ==
    IF n < 128 THEN <<n>> ELSE <<128 + (n % 128)>> \o write_varint(n \div 128)

(* Ok(<<value, rest>>) or an end-of-input error. *)
RECURSIVE read_varint(_)
read_varint(bytes) ==
    IF Len(bytes) = 0 THEN Err(<<"unexpected end of input">>)
    ELSE IF bytes[1] < 128 THEN Ok(<<bytes[1], Tail(bytes)>>)
    ELSE LET r == read_varint(Tail(bytes))
         IN  IF ~r.ok THEN r
             ELSE Ok(<<(bytes[1] - 128) + 128 * r.val[1], r.val[2]>>)

write_field(last_id, id, bytes) ==
    <<(id - last_id) * 16 + CT_BINARY>> \o write_varint(Len(bytes)) \o bytes

compact_protocol_serialize(fe) ==
    LET f1 == write_field(0, 1, fe.t_node_id.wire)
        f2 == IF IsSome(fe.t_p1) THEN write_field(1, 2, Unwrap(fe.t_p1).wire) ELSE <<>>
        l2 == IF IsSome(fe.t_p1) THEN 2 ELSE 1
        f3 == IF IsSome(fe.t_p2) THEN write_field(l2, 3, Unwrap(fe.t_p2).wire) ELSE <<>>
        l3 == IF IsSome(fe.t_p2) THEN 3 ELSE l2
        f4 == IF IsSome(fe.t_contents) THEN write_field(l3, 4, Unwrap(fe.t_contents))
              ELSE <<>>
    IN  f1 \o f2 \o f3 \o f4 \o <<CT_STOP>>

set_field(acc, id, bytes) ==
    IF id = 1 THEN [acc EXCEPT !.t_node_id = thrift_HgNodeHash(bytes)]
    ELSE IF id = 2 THEN [acc EXCEPT !.t_p1 = Some(thrift_HgNodeHash(bytes))]
    ELSE IF id = 3 THEN [acc EXCEPT !.t_p2 = Some(thrift_HgNodeHash(bytes))]
    ELSE IF id = 4 THEN [acc EXCEPT !.t_contents = Some(bytes)]
    ELSE acc

RECURSIVE read_fields(_, _, _)
read_fields(bytes, last_id, acc) ==
    IF Len(bytes) = 0 THEN Err(<<"unexpected end of input">>)
    ELSE IF bytes[1] = CT_STOP THEN Ok(acc)
    ELSE IF bytes[1] % 16 # CT_BINARY \/ bytes[1] \div 16 = 0
         THEN Err(<<"unexpected field header">>)
    ELSE LET n == read_varint(Tail(bytes))
         IN  IF ~n.ok THEN n
             ELSE IF Len(n.val[2]) < n.val[1] THEN Err(<<"unexpected end of input">>)
             ELSE read_fields(SubSeq(n.val[2], n.val[1] + 1, Len(n.val[2])),
                              last_id + bytes[1] \div 16,
                              set_field(acc, last_id + bytes[1] \div 16,
                                        SubSeq(n.val[2], 1, n.val[1])))

(* A field absent from the input keeps its default. *)
compact_protocol_deserialize(bytes) ==
    read_fields(bytes, 0, thrift_HgChangesetEnvelope(thrift_HgNodeHash(<<>>), None, None, None))

HgEnvelopeBlob(bytes) == [blob |-> bytes]

(* Faulty variant: one stage, every failure reported as a blob error. *)
HgChangesetEnvelope_from_blob_one_stage(blob) ==
    LET thrift_tc == compact_protocol_deserialize(blob.blob)
    IN  Context(IF ~thrift_tc.ok THEN thrift_tc
                ELSE HgChangesetEnvelope_from_thrift(thrift_tc.val),
                "BlobDeserializeError: HgChangesetEnvelope")

HgChangesetEnvelope_from_blob(blob) ==
    LET thrift_tc == Context(compact_protocol_deserialize(blob.blob),
                             "BlobDeserializeError: HgChangesetEnvelope")
    IN  IF ~thrift_tc.ok THEN thrift_tc
        ELSE HgChangesetEnvelope_from_thrift(thrift_tc.val)

HgChangesetEnvelope_into_blob(self) ==
    HgEnvelopeBlob(compact_protocol_serialize(HgChangesetEnvelope_into_thrift(self)))

-----------------------------------------------------------------------------
(* Inputs *)
WireElements == {thrift_MPathElement(b) : b \in BoundedSeq(Alphabet, MaxElemLen)}
WirePaths == {thrift_MPath(es) : es \in BoundedSeq(WireElements, MaxWireElems)}

(* Elements a caller can hand to join: valid ones, and the zero-length     *)
(* element that join filters out.                                          *)
JoinElements ==
    {MPathElement(<<>>)} \cup {MPathElement(<<b>>) : b \in GoodBytes}
JoinArgs == BoundedSeq(JoinElements, MaxJoin)
JoinSeqs == BoundedSeq(JoinElements, MaxJoinSeq)

(* The `other` of common_components and is_prefix_of: the elements of a   *)
(* path built from '.' and '/', or of MPath::iter_opt(None), which has    *)
(* none.                                                                  *)
OtherIters ==
    {<<>>} \cup {MPath_new(s).val.elements :
                    s \in {t \in BoundedSeq({DOT, SLASH}, MaxOtherRaw) : MPath_new(t).ok}}

(* The bytes handed to MPathElement::extend: any at all. *)
ExtendArgs == BoundedSeq(Alphabet, MaxExtend)

(* What RepoPath::dir and RepoPath::file are handed: raw bytes, or an     *)
(* MPath that MPath::from_thrift returned.  The RepoPaths a RepoPath is   *)
(* compared with are built from the paths of '.' and '/'.                 *)
DecodedMPaths == {MPath_from_thrift(w).val : w \in {v \in WirePaths : MPath_from_thrift(v).ok}}
BytesLikes == {PathBytes(b) : b \in RawStrings}
MPathLikes == {PathMPath(p) : p \in DecodedMPaths}
OtherRepoPaths ==
    {RootPath} \cup {DirectoryPath(MPath(es)) : es \in OtherIters \ {<<>>}}
               \cup {FilePath(MPath(es)) : es \in OtherIters \ {<<>>}}

(* check_pcf's inputs: paths MPath::new builds from strings of '.' and    *)
(* '/', paired with a flag, in ascending MPath order (repeats allowed).   *)
PcfStrings == BoundedSeq({DOT, SLASH}, MaxPcfRaw)
PcfPaths == {MPath_new(s).val : s \in {t \in PcfStrings : MPath_new(t).ok}}
PcfPairs == [path : PcfPaths, is_changed : BOOLEAN]
IsSortedPairs(ps) == \A i \in 1..(Len(ps) - 1) : MPath_le(ps[i].path, ps[i + 1].path)
SortedInputs == {ps \in BoundedSeq(PcfPairs, MaxPcfLen) : IsSortedPairs(ps)}

(* Envelope inputs.  Wire hashes are a fill byte repeated, one byte short *)
(* of, exactly, or one byte over the hash length; contents bytes are the  *)
(* codec's stop byte and its first field header.                          *)
Fill(b, n) == [i \in 1..n |-> b]
HashFill == {1, 2}
ContentBytes == {CT_STOP, 16 + CT_BINARY}
WireHashes ==
    {thrift_HgNodeHash(Fill(b, n)) : b \in HashFill, n \in (Sha1Len - 1)..(Sha1Len + 1)}
OptionOf(S) == {None} \cup {Some(x) : x \in S}
ContentsSet == BoundedSeq(ContentBytes, MaxContents)
WireEnvelopes ==
    {thrift_HgChangesetEnvelope(n, p1, p2, c) :
        n \in WireHashes, p1 \in OptionOf(WireHashes), p2 \in OptionOf(WireHashes),
        c \in OptionOf(ContentsSet)}
Hashes == {HgNodeHash(Fill(b, Sha1Len)) : b \in HashFill}
EnvelopeMuts ==
    {HgChangesetEnvelopeMut(n, p1, p2, c) :
        n \in Hashes, p1 \in OptionOf(Hashes), p2 \in OptionOf(Hashes), c \in ContentsSet}
(* Blobs: every wire envelope serialized, whole or cut short at the end. *)
CutShort(b) == {SubSeq(b, 1, Len(b) - k) : k \in 0..(IF MaxCut < Len(b) THEN MaxCut ELSE Len(b))}
Blobs ==
    {HgEnvelopeBlob(c) : c \in UNION {CutShort(compact_protocol_serialize(fe)) : fe \in WireEnvelopes}}

Call(op, recv, arg, out) == [op |-> op, recv |-> recv, arg |-> arg, out |-> out]

-----------------------------------------------------------------------------
PathInit ==
    /\ path = None
    /\ elem = None
    /\ res = Call("init", None, None, None)

PcfInit ==
    /\ sorted_paths = <<>>
    /\ pos = 0
    /\ last_changed_path = None
    /\ pcf_pc = "idle"
    /\ pcf_out = Ok(<<>>)

EnvInit ==
    /\ env = None
    /\ env_res = Call("init", None, None, None)

RepoInit ==
    /\ repo = None
    /\ repo_res = Call("init", None, None, None)

Init == PathInit /\ PcfInit /\ EnvInit /\ RepoInit

(* A constructor call starts a run from values that hold nothing; its    *)
(* result does not depend on what was held before.                        *)
Fresh == res.op = "init"

DoMPathElementNew ==
    /\ Fresh
    /\ \E b \in RawStrings :
        LET r == MPathElement_new(b)
        IN  /\ res' = Call("MPathElement::new", None, b, r)
            /\ elem' = IF r.ok THEN Some(r.val) ELSE None
            /\ path' = None
            /\ UNCHANGED <<pcfVars, envVars, repoVars>>

DoMPathElementFromThrift ==
    /\ Fresh
    /\ \E w \in WireElements :
        LET r == MPathElement_from_thrift(w)
        IN  /\ res' = Call("MPathElement::from_thrift", None, w, r)
            /\ elem' = IF r.ok THEN Some(r.val) ELSE None
            /\ path' = None
            /\ UNCHANGED <<pcfVars, envVars, repoVars>>

DoMPathElementIntoThrift ==
    /\ IsSome(elem)
    /\ res' = Call("MPathElement::into_thrift", Unwrap(elem), None,
                   MPathElement_into_thrift(Unwrap(elem)))
    /\ UNCHANGED <<path, elem>>
    /\ UNCHANGED <<pcfVars, envVars, repoVars>>

DoMPathFromElement ==
    /\ IsSome(elem)
    /\ res' = Call("MPath::from", None, Unwrap(elem), MPath_from_element(Unwrap(elem)))
    /\ path' = Some(MPath_from_element(Unwrap(elem)))
    /\ elem' = None
    /\ UNCHANGED <<pcfVars, envVars, repoVars>>

DoMPathNew ==
    /\ Fresh
    /\ \E p \in RawStrings :
        LET r == MPath_new(p)
        IN  /\ res' = Call("MPath::new", None, p, r)
            /\ path' = IF r.ok THEN Some(r.val) ELSE None
            /\ elem' = None
            /\ UNCHANGED <<pcfVars, envVars, repoVars>>

DoMPathFromThrift ==
    /\ Fresh
    /\ \E w \in WirePaths :
        LET r == MPath_from_thrift(w)
        IN  /\ res' = Call("MPath::from_thrift", None, w, r)
            /\ path' = IF r.ok THEN Some(r.val) ELSE None
            /\ elem' = None
            /\ UNCHANGED <<pcfVars, envVars, repoVars>>

(* The join family.  The receiver is the held path (for the *_opt forms,  *)
(* the held Option).                                                      *)
Growable(n) ==
    (IF IsSome(path) THEN MPath_num_components(Unwrap(path)) ELSE 0) + n <= MaxComponents

DoJoin(another) ==
    /\ IsSome(path)
    /\ Growable(Len(another))
    /\ res' = Call("MPath::join", Unwrap(path), another, MPath_join(Unwrap(path), another))
    /\ path' = Some(MPath_join(Unwrap(path), another))
    /\ elem' = None
    /\ UNCHANGED <<pcfVars, envVars, repoVars>>

DoJoinElement(element) ==
    /\ IsSome(path)
    /\ Growable(1)
    /\ res' = Call("MPath::join_element", Unwrap(path), element,
                   MPath_join_element(Unwrap(path), element))
    /\ path' = Some(MPath_join_element(Unwrap(path), element))
    /\ elem' = None
    /\ UNCHANGED <<pcfVars, envVars, repoVars>>

DoJoinOpt(another) ==
    /\ Growable(Len(another))
    /\ ~Fresh
    /\ res' = Call("MPath::join_opt", path, another, MPath_join_opt(path, another))
    /\ path' = MPath_join_opt(path, another)
    /\ elem' = None
    /\ UNCHANGED <<pcfVars, envVars, repoVars>>

DoJoinOptElement(element) ==
    /\ Growable(1)
    /\ ~Fresh
    /\ res' = Call("MPath::join_opt_element", path, element,
                   MPath_join_opt_element(path, element))
    /\ path' = Some(MPath_join_opt_element(path, element))
    /\ elem' = None
    /\ UNCHANGED <<pcfVars, envVars, repoVars>>

DoJoinElementOpt(element) ==
    /\ Growable(1)
    /\ ~Fresh
    /\ res' = Call("MPath::join_element_opt", path, element,
                   MPath_join_element_opt(path, element))
    /\ path' = MPath_join_element_opt(path, element)
    /\ elem' = None
    /\ UNCHANGED <<pcfVars, envVars, repoVars>>

DoCommonComponents(other) ==
    /\ IsSome(path)
    /\ res' = Call("MPath::common_components", Unwrap(path), other,
                   MPath_common_components(Unwrap(path), other))
    /\ UNCHANGED <<path, elem>>
    /\ UNCHANGED <<pcfVars, envVars, repoVars>>

DoIsPrefixOf(other) ==
    /\ IsSome(path)
    /\ res' = Call("MPath::is_prefix_of", Unwrap(path), other,
                   MPath_is_prefix_of(Unwrap(path), other))
    /\ UNCHANGED <<path, elem>>
    /\ UNCHANGED <<pcfVars, envVars, repoVars>>

DoNumComponents ==
    /\ IsSome(path)
    /\ res' = Call("MPath::num_components", Unwrap(path), None,
                   MPath_num_components(Unwrap(path)))
    /\ UNCHANGED <<path, elem>>
    /\ UNCHANGED <<pcfVars, envVars, repoVars>>

DoBasename ==
    LET r == MPath_basename(Unwrap(path))
    IN  /\ IsSome(path)
        /\ res' = Call("MPath::basename", Unwrap(path), None, r)
        /\ elem' = IF r.panic THEN None ELSE Some(r.val)
        /\ path' = IF r.panic THEN None ELSE path
        /\ UNCHANGED <<pcfVars, envVars, repoVars>>

DoTakePrefixComponents(components) ==
    LET r == MPath_take_prefix_components(Unwrap(path), components)
    IN  /\ IsSome(path)
        /\ res' = Call("MPath::take_prefix_components", Unwrap(path), components, r)
        /\ path' = IF r.ok THEN r.val ELSE None
        /\ elem' = None
        /\ UNCHANGED <<pcfVars, envVars, repoVars>>

DoSplitDirname ==
    LET r == MPath_split_dirname(Unwrap(path))
    IN  /\ IsSome(path)
        /\ res' = Call("MPath::split_dirname", Unwrap(path), None, r)
        /\ path' = IF r.panic THEN None ELSE r.val[1]
        /\ elem' = IF r.panic THEN None ELSE Some(r.val[2])
        /\ UNCHANGED <<pcfVars, envVars, repoVars>>

DoToVec ==
    /\ IsSome(path)
    /\ res' = Call("MPath::to_vec", Unwrap(path), None, MPath_to_vec(Unwrap(path)))
    /\ UNCHANGED <<path, elem>>
    /\ UNCHANGED <<pcfVars, envVars, repoVars>>

DoLen(overflow_checks) ==
    LET r == MPath_len(Unwrap(path), overflow_checks)
    IN  /\ IsSome(path)
        /\ res' = Call("MPath::len", Unwrap(path), overflow_checks, r)
        /\ path' = IF r.panic THEN None ELSE path
        /\ elem' = IF r.panic THEN None ELSE elem
        /\ UNCHANGED <<pcfVars, envVars, repoVars>>

DoMPathIntoThrift ==
    /\ IsSome(path)
    /\ res' = Call("MPath::into_thrift", Unwrap(path), None, MPath_into_thrift(Unwrap(path)))
    /\ UNCHANGED <<path, elem>>
    /\ UNCHANGED <<pcfVars, envVars, repoVars>>

(* The held values go out of scope. *)
DoDrop ==
    /\ ~Fresh
    /\ path' = None
    /\ elem' = None
    /\ res' = Call("init", None, None, None)
    /\ UNCHANGED <<pcfVars, envVars, repoVars>>

Next ==
    \/ DoMPathElementNew
    \/ DoMPathElementFromThrift
    \/ DoMPathElementIntoThrift
    \/ DoMPathFromElement
    \/ DoMPathNew
    \/ DoMPathFromThrift
    \/ \E another \in JoinArgs : DoJoin(another)
    \/ \E e \in JoinElements : DoJoinElement(Some(e))
    \/ DoJoinElement(None)
    \/ \E another \in JoinArgs : DoJoinOpt(another)
    \/ \E e \in JoinElements : DoJoinOptElement(e)
    \/ \E e \in JoinElements : DoJoinElementOpt(Some(e))
    \/ DoJoinElementOpt(None)
    \/ \E other \in OtherIters : DoCommonComponents(other)
    \/ \E other \in OtherIters : DoIsPrefixOf(other)
    \/ DoNumComponents
    \/ DoBasename
    \/ \E n \in 0..(MaxComponents + 1) : DoTakePrefixComponents(n)
    \/ DoSplitDirname
    \/ DoToVec
    \/ \E c \in BOOLEAN : DoLen(c)
    \/ DoMPathIntoThrift
    \/ DoDrop

Spec == Init /\ [][Next]_vars

-----------------------------------------------------------------------------
(* The join family on its own, with longer element sequences: a path is   *)
(* constructed, joined any number of times, and dropped.                  *)
JoinNext ==
    \/ DoMPathNew
    \/ DoMPathFromThrift
    \/ \E another \in JoinSeqs : DoJoin(another)
    \/ \E e \in JoinElements : DoJoinElement(Some(e))
    \/ DoJoinElement(None)
    \/ \E another \in JoinSeqs : DoJoinOpt(another)
    \/ \E e \in JoinElements : DoJoinOptElement(e)
    \/ \E e \in JoinElements : DoJoinElementOpt(Some(e))
    \/ DoJoinElementOpt(None)
    \/ DoNumComponents
    \/ DoDrop

SpecJoin == Init /\ [][JoinNext]_vars

-----------------------------------------------------------------------------
(* The life of one MPathElement: made by new or from_thrift, extended in  *)
(* place, dropped.  An element is not grown past MaxLen bytes.            *)
DoExtend(toappend) ==
    /\ IsSome(elem)
    /\ MPathElement_len(Unwrap(elem)) + Len(toappend) <= MaxLen
    /\ res' = Call("MPathElement::extend", Unwrap(elem), toappend,
                   MPathElement_extend(Unwrap(elem), toappend))
    /\ elem' = Some(MPathElement_extend(Unwrap(elem), toappend))
    /\ UNCHANGED path
    /\ UNCHANGED <<pcfVars, envVars, repoVars>>

ElemNext ==
    \/ DoMPathElementNew
    \/ DoMPathElementFromThrift
    \/ \E toappend \in ExtendArgs : DoExtend(toappend)
    \/ DoMPathElementIntoThrift
    \/ DoDrop

SpecElem == Init /\ [][ElemNext]_vars

-----------------------------------------------------------------------------
(* check_pcf, one action per loop iteration.                              *)
DoCheckPcf ==
    /\ pcf_pc = "idle"
    /\ \E input \in SortedInputs :
        /\ sorted_paths' = input
        /\ pos' = 0
        /\ last_changed_path' = None
        /\ pcf_pc' = IF Len(input) = 0 THEN "done" ELSE "loop"
        /\ pcf_out' = Ok(<<>>)
        /\ UNCHANGED <<pathVars, envVars, repoVars>>

CheckPcfLoop ==
    LET r == check_pcf_body(last_changed_path, sorted_paths[pos + 1])
    IN  /\ pcf_pc = "loop"
        /\ pos < Len(sorted_paths)
        /\ pos' = pos + 1
        /\ last_changed_path' = IF r.ok THEN r.val ELSE last_changed_path
        /\ pcf_out' = IF r.ok THEN Ok(<<>>) ELSE r
        /\ pcf_pc' = IF ~r.ok \/ pos + 1 = Len(sorted_paths) THEN "done" ELSE "loop"
        /\ UNCHANGED sorted_paths
        /\ UNCHANGED <<pathVars, envVars, repoVars>>

(* The call has returned; the caller may make another. *)
CheckPcfReturn ==
    /\ pcf_pc = "done"
    /\ sorted_paths' = <<>>
    /\ pos' = 0
    /\ last_changed_path' = None
    /\ pcf_pc' = "idle"
    /\ pcf_out' = Ok(<<>>)
    /\ UNCHANGED <<pathVars, envVars, repoVars>>

PcfNext ==
    \/ DoCheckPcf
    \/ CheckPcfLoop
    \/ CheckPcfReturn

SpecPcf == Init /\ [][PcfNext]_vars

-----------------------------------------------------------------------------
(* The envelope operations. *)
EnvFresh == env_res.op = "init"

DoFreeze ==
    /\ EnvFresh
    /\ \E m \in EnvelopeMuts :
        /\ env_res' = Call("HgChangesetEnvelopeMut::freeze", None, m,
                           HgChangesetEnvelopeMut_freeze(m))
        /\ env' = Some(HgChangesetEnvelopeMut_freeze(m))
        /\ UNCHANGED <<pathVars, pcfVars, repoVars>>

DoEnvFromThrift ==
    /\ EnvFresh
    /\ \E fe \in WireEnvelopes :
        LET r == HgChangesetEnvelope_from_thrift(fe)
        IN  /\ env_res' = Call("HgChangesetEnvelope::from_thrift", None, fe, r)
            /\ env' = IF r.ok THEN Some(r.val) ELSE None
            /\ UNCHANGED <<pathVars, pcfVars, repoVars>>

DoEnvFromBlob ==
    /\ EnvFresh
    /\ \E blob \in Blobs :
        LET r == HgChangesetEnvelope_from_blob(blob)
        IN  /\ env_res' = Call("HgChangesetEnvelope::from_blob", None, blob, r)
            /\ env' = IF r.ok THEN Some(r.val) ELSE None
            /\ UNCHANGED <<pathVars, pcfVars, repoVars>>

DoEnvIntoThrift ==
    /\ IsSome(env)
    /\ env_res' = Call("HgChangesetEnvelope::into_thrift", Unwrap(env), None,
                       HgChangesetEnvelope_into_thrift(Unwrap(env)))
    /\ env' = None
    /\ UNCHANGED <<pathVars, pcfVars, repoVars>>

DoEnvIntoBlob ==
    /\ IsSome(env)
    /\ env_res' = Call("HgChangesetEnvelope::into_blob", Unwrap(env), None,
                       HgChangesetEnvelope_into_blob(Unwrap(env)))
    /\ env' = None
    /\ UNCHANGED <<pathVars, pcfVars, repoVars>>

DoEnvIntoMut ==
    /\ IsSome(env)
    /\ env_res' = Call("HgChangesetEnvelope::into_mut", Unwrap(env), None,
                       HgChangesetEnvelope_into_mut(Unwrap(env)))
    /\ env' = None
    /\ UNCHANGED <<pathVars, pcfVars, repoVars>>

DoEnvDrop ==
    /\ ~EnvFresh
    /\ env' = None
    /\ env_res' = Call("init", None, None, None)
    /\ UNCHANGED <<pathVars, pcfVars, repoVars>>

EnvNext ==
    \/ DoFreeze
    \/ DoEnvFromThrift
    \/ DoEnvFromBlob
    \/ DoEnvIntoThrift
    \/ DoEnvIntoBlob
    \/ DoEnvIntoMut
    \/ DoEnvDrop

SpecEnv == Init /\ [][EnvNext]_vars

-----------------------------------------------------------------------------
(* The RepoPath operations. *)
RepoFresh == repo_res.op = "init"

DoRepoRoot ==
    /\ RepoFresh
    /\ repo_res' = Call("RepoPath::root", None, None, RepoPath_root)
    /\ repo' = Some(RepoPath_root)
    /\ UNCHANGED <<pathVars, pcfVars, envVars>>

RepoDir(x) ==
    LET r == RepoPath_dir(x)
    IN  /\ repo_res' = Call("RepoPath::dir", None, x, r)
        /\ repo' = IF r.ok THEN Some(r.val) ELSE None
        /\ UNCHANGED <<pathVars, pcfVars, envVars>>

DoRepoDir ==
    /\ RepoFresh
    /\ \/ \E x \in BytesLikes : RepoDir(x)
       \/ \E x \in MPathLikes : RepoDir(x)

RepoFile(x) ==
    LET r == RepoPath_file(x)
    IN  /\ repo_res' = Call("RepoPath::file", None, x, r)
        /\ repo' = IF r.ok THEN Some(r.val) ELSE None
        /\ UNCHANGED <<pathVars, pcfVars, envVars>>

DoRepoFile ==
    /\ RepoFresh
    /\ \/ \E x \in BytesLikes : RepoFile(x)
       \/ \E x \in MPathLikes : RepoFile(x)

DoRepoIsRoot ==
    /\ IsSome(repo)
    /\ repo_res' = Call("RepoPath::is_root", Unwrap(repo), None, RepoPath_is_root(Unwrap(repo)))
    /\ UNCHANGED repo
    /\ UNCHANGED <<pathVars, pcfVars, envVars>>

DoRepoIsDir ==
    /\ IsSome(repo)
    /\ repo_res' = Call("RepoPath::is_dir", Unwrap(repo), None, RepoPath_is_dir(Unwrap(repo)))
    /\ UNCHANGED repo
    /\ UNCHANGED <<pathVars, pcfVars, envVars>>

DoRepoIsTree ==
    /\ IsSome(repo)
    /\ repo_res' = Call("RepoPath::is_tree", Unwrap(repo), None, RepoPath_is_tree(Unwrap(repo)))
    /\ UNCHANGED repo
    /\ UNCHANGED <<pathVars, pcfVars, envVars>>

DoRepoIsFile ==
    /\ IsSome(repo)
    /\ repo_res' = Call("RepoPath::is_file", Unwrap(repo), None, RepoPath_is_file(Unwrap(repo)))
    /\ UNCHANGED repo
    /\ UNCHANGED <<pathVars, pcfVars, envVars>>

DoRepoLen(overflow_checks) ==
    LET r == RepoPath_len(Unwrap(repo), overflow_checks)
    IN  /\ IsSome(repo)
        /\ repo_res' = Call("RepoPath::len", Unwrap(repo), overflow_checks, r)
        /\ repo' = IF r.panic THEN None ELSE repo
        /\ UNCHANGED <<pathVars, pcfVars, envVars>>

DoRepoMpath ==
    /\ IsSome(repo)
    /\ repo_res' = Call("RepoPath::mpath", Unwrap(repo), None, RepoPath_mpath(Unwrap(repo)))
    /\ UNCHANGED repo
    /\ UNCHANGED <<pathVars, pcfVars, envVars>>

DoRepoIntoMpath ==
    /\ IsSome(repo)
    /\ repo_res' = Call("RepoPath::into_mpath", Unwrap(repo), None,
                        RepoPath_into_mpath(Unwrap(repo)))
    /\ repo' = None
    /\ UNCHANGED <<pathVars, pcfVars, envVars>>

DoRepoEq(other) ==
    /\ IsSome(repo)
    /\ repo_res' = Call("RepoPath::eq", Unwrap(repo), other, RepoPath_eq(Unwrap(repo), other))
    /\ UNCHANGED repo
    /\ UNCHANGED <<pathVars, pcfVars, envVars>>

DoRepoDrop ==
    /\ ~RepoFresh
    /\ repo' = None
    /\ repo_res' = Call("init", None, None, None)
    /\ UNCHANGED <<pathVars, pcfVars, envVars>>

RepoNext ==
    \/ DoRepoRoot
    \/ DoRepoDir
    \/ DoRepoFile
    \/ DoRepoIsRoot
    \/ DoRepoIsDir
    \/ DoRepoIsTree
    \/ DoRepoIsFile
    \/ \E c \in BOOLEAN : DoRepoLen(c)
    \/ DoRepoMpath
    \/ DoRepoIntoMpath
    \/ \E other \in OtherRepoPaths : DoRepoEq(other)
    \/ DoRepoDrop

SpecRepo == Init /\ [][RepoNext]_vars

-----------------------------------------------------------------------------
(* Properties of check_pcf (checked under SpecPcf).                       *)

(* p is a component-wise prefix of q: q starts with p's components. *)
IsComponentPrefix(p, q) ==
    /\ Len(p.elements) <= Len(q.elements)
    /\ SubSeq(q.elements, 1, Len(p.elements)) = p.elements

IsStrictComponentPrefix(p, q) == IsComponentPrefix(p, q) /\ p # q

PcfDone == pcf_pc = "done"

(* C1: on a sorted input (repeats allowed) check_pcf fails if and only if *)
(* some changed path is a strict component-wise prefix of a later path of *)
(* the sequence.                                                          *)
C1_FailsIffStrictPrefix ==
    PcfDone =>
        (~pcf_out.ok <=>
            \E j \in 1..Len(sorted_paths) : \E i \in 1..(j - 1) :
                /\ sorted_paths[i].is_changed
                /\ IsStrictComponentPrefix(sorted_paths[i].path, sorted_paths[j].path))

(* A violation at position j: a changed path before j is a component-wise *)
(* prefix of the path at j.                                               *)
ViolationAt(j) ==
    \E i \in 1..(j - 1) :
        /\ sorted_paths[i].is_changed
        /\ IsComponentPrefix(sorted_paths[i].path, sorted_paths[j].path)

ChangedBefore(j) == {i \in 1..(j - 1) : sorted_paths[i].is_changed}

(* C2: a failing check_pcf stops at the first position j where a          *)
(* violation exists (pos = j, nothing after j is taken), and its error    *)
(* NotPathConflictFree(a, d) has d = path[j] and a = the most recent      *)
(* changed path before j, a component-wise prefix of d.                   *)
C2_FailsAtFirstViolation ==
    (PcfDone /\ ~pcf_out.ok) =>
        /\ pos \in 1..Len(sorted_paths)
        /\ ViolationAt(pos)
        /\ \A k \in 1..(pos - 1) : ~ViolationAt(k)
        /\ ChangedBefore(pos) # {}
        /\ LET m == CHOOSE i \in ChangedBefore(pos) : \A l \in ChangedBefore(pos) : l <= i
           IN  /\ pcf_out.val = <<sorted_paths[m].path, sorted_paths[pos].path>>
               /\ IsComponentPrefix(sorted_paths[m].path, sorted_paths[pos].path)
        /\ pcf_out.err = <<"NotPathConflictFree">>

(* C2 witness: a failure at the second of three pairs, the third untaken, *)
(* where the offending ancestor is not the first changed path.            *)
C2_Witness ==
    /\ PcfDone
    /\ ~pcf_out.ok
    /\ Len(sorted_paths) = 3
    /\ pos = 2
    /\ sorted_paths[1].path # sorted_paths[2].path

(* The scan has started and has not failed. *)
Scanning == pcf_pc # "idle" /\ pcf_out.ok

FirstDiff(a, b) ==
    CHOOSE k \in 1..(Len(a) + 1) :
        /\ \A i \in 1..(k - 1) : i <= Len(b) /\ a[i] = b[i]
        /\ (k > Len(a) \/ k > Len(b) \/ a[k] # b[k])
LexLe(a, b, lt(_, _)) ==
    LET k == FirstDiff(a, b)
    IN  \/ k > Len(a)
        \/ (k <= Len(b) /\ lt(a[k], b[k]))
ByteLt(x, y) == x < y
ElementLt(e, f) == e # f /\ LexLe(e[1], f[1], ByteLt)
ComponentLexLe(p, q) == LexLe(p.elements, q.elements, ElementLt)

(* C15: the order of MPaths is lexicographic over the component sequence, *)
(* and under it descendants are contiguous: when p <= r <= q and p is a   *)
(* component-wise prefix of q, p is a prefix of r as well.                *)
C15_OrderIsByComponent ==
    /\ \A i \in 1..Len(sorted_paths) : \A j \in i..Len(sorted_paths) :
          ComponentLexLe(sorted_paths[i].path, sorted_paths[j].path)
    /\ \A i \in 1..Len(sorted_paths) : \A j \in i..Len(sorted_paths) :
          IsComponentPrefix(sorted_paths[i].path, sorted_paths[j].path) =>
              \A k \in i..j :
                  IsComponentPrefix(sorted_paths[i].path, sorted_paths[k].path)

(* The foo < foo/bar < foo1 case, where the joined bytes order the last   *)
(* two the other way round.                                               *)
C15_Witness ==
    /\ Len(sorted_paths) = 3
    /\ sorted_paths[1].path = MPath(<<MPathElement(<<DOT>>)>>)
    /\ sorted_paths[2].path = MPath(<<MPathElement(<<DOT>>), MPathElement(<<DOT>>)>>)
    /\ sorted_paths[3].path = MPath(<<MPathElement(<<DOT, DOT>>)>>)
    /\ BytesLt(MPath_to_vec(sorted_paths[3].path), MPath_to_vec(sorted_paths[2].path))

-----------------------------------------------------------------------------
(* Properties of MPathElement and MPath (checked under Spec).             *)

(* The validation rules, stated on the bytes. *)
ValidElementBytes(b) ==
    /\ Len(b) > 0
    /\ \A i \in 1..Len(b) : b[i] \notin {NUL, SOH, SLASH, NL}

ValidPath(p) ==
    /\ Len(p.elements) >= 1
    /\ \A i \in 1..Len(p.elements) : ValidElementBytes(p.elements[i][1])

(* C3: every MPath an operation returns has at least one element, so      *)
(* basename and split_dirname never fail on it.                           *)
C3_ReturnedPathsNonEmpty ==
    /\ IsSome(path) => Len(Unwrap(path).elements) >= 1
    /\ res.op \in {"MPath::basename", "MPath::split_dirname"} => ~res.out.panic

(* C4: p.len() equals the byte length of p.to_vec() for every constructed *)
(* MPath p, computed without underflow.                                   *)
C4_LenIsToVecLen ==
    res.op = "MPath::len" =>
        /\ ~res.out.panic
        /\ res.out.val = Len(MPath_to_vec(res.recv))
        /\ res.out.val = SumLens(res.recv.elements) + (Len(res.recv.elements) - 1)

(* The maximal runs of non-'/' bytes of s, as <<first, last>> positions. *)
Runs(s) ==
    {r \in (1..Len(s)) \X (1..Len(s)) :
        /\ r[1] <= r[2]
        /\ \A i \in r[1]..r[2] : s[i] # SLASH
        /\ (r[1] = 1 \/ s[r[1] - 1] = SLASH)
        /\ (r[2] = Len(s) \/ s[r[2] + 1] = SLASH)}

(* C5: MPath::new(s) fails iff s holds a byte 0, 1 or newline, or has no  *)
(* non-empty '/'-separated segment; otherwise its elements are exactly    *)
(* the non-empty segments of s in order, each a valid element.            *)
C5_NewSplitsOnSlash ==
    res.op = "MPath::new" =>
        LET s == res.arg
            rejected == \/ \E i \in 1..Len(s) : s[i] \in {NUL, SOH, NL}
                        \/ Runs(s) = {}
        IN  /\ ~res.out.ok <=> rejected
            /\ ~res.out.ok => path = None
            /\ res.out.ok =>
                LET es == res.out.val.elements
                IN  /\ path = Some(res.out.val)
                    /\ Len(es) = Cardinality(Runs(s))
                    /\ \A r \in Runs(s) :
                          es[Cardinality({q \in Runs(s) : q[1] < r[1]}) + 1]
                              = MPathElement(SubSeq(s, r[1], r[2]))
                    /\ \A k \in 1..Len(es) : ValidElementBytes(es[k][1])

C5_Witness ==
    /\ res.op = "MPath::new"
    /\ res.out.ok
    /\ Len(res.out.val.elements) = 2

(* C6: MPathElement::new(b) succeeds iff b is non-empty and free of the   *)
(* bytes 0, 1, '/' and newline; the element then holds exactly b, and a   *)
(* failure yields no element.                                             *)
C6_ElementNewValidates ==
    res.op = "MPathElement::new" =>
        /\ res.out.ok <=> ValidElementBytes(res.arg)
        /\ res.out.ok => res.out.val[1] = res.arg /\ elem = Some(res.out.val)
        /\ ~res.out.ok => res.out.val = <<>> /\ elem = None

C6_Witness ==
    /\ res.op = "MPathElement::new"
    /\ res.out.ok
    /\ Len(res.arg) = 2
    /\ res.arg[1] # res.arg[2]

(* C7: MPathElement::from_thrift(w) succeeds exactly when                 *)
(* MPathElement::new(w) would, and MPath::from_thrift fails, returning no *)
(* MPath, whenever a wire element is empty or holds 0, 1, '/' or newline. *)
C7_FromThriftValidates ==
    /\ res.op = "MPathElement::from_thrift" =>
          /\ res.out.ok <=> MPathElement_new(res.arg.wire).ok
          /\ res.out.ok => res.out.val = MPathElement_new(res.arg.wire).val
          /\ ~res.out.ok => elem = None
    /\ res.op = "MPath::from_thrift" =>
          ((\E i \in 1..Len(res.arg.wire) : ~ValidElementBytes(res.arg.wire[i].wire))
              => ~res.out.ok /\ res.out.val = <<>> /\ path = None)

(* A wire path whose first element is fine and whose second is not. *)
C7_Witness ==
    /\ res.op = "MPath::from_thrift"
    /\ Len(res.arg.wire) = 2
    /\ ValidElementBytes(res.arg.wire[1].wire)
    /\ ~ValidElementBytes(res.arg.wire[2].wire)
    /\ ~res.out.ok

(* C8: from_thrift(into_thrift(v)) succeeds and equals v, for every valid *)
(* MPath and every valid MPathElement.                                    *)
C8_ThriftRoundTrip ==
    /\ (res.op = "MPath::into_thrift" /\ ValidPath(res.recv)) =>
          MPath_from_thrift(res.out) = Ok(res.recv)
    /\ (res.op = "MPathElement::into_thrift" /\ ValidElementBytes(res.recv[1])) =>
          MPathElement_from_thrift(res.out) = Ok(res.recv)

C8_Witness ==
    /\ res.op = "MPath::into_thrift"
    /\ ValidPath(res.recv)
    /\ Len(res.recv.elements) >= 2
    /\ res.recv.elements[1] # res.recv.elements[2]

(* The number of leading positions at which a and b hold equal elements. *)
LeadingEqual(a, b) ==
    Cardinality({k \in 1..(IF Len(a) < Len(b) THEN Len(a) ELSE Len(b)) :
                    \A i \in 1..k : a[i] = b[i]})

(* C11: p.is_prefix_of(q) is true iff the number of leading components of *)
(* p and q that are pairwise equal is p.num_components(), which is what   *)
(* common_components returns; whole components are compared, so q then    *)
(* starts with p's components, and a p longer than q is never a prefix.   *)
C11_PrefixIsWholeComponents ==
    /\ res.op = "MPath::common_components" =>
          res.out = LeadingEqual(res.recv.elements, res.arg)
    /\ res.op = "MPath::is_prefix_of" =>
          /\ res.out <=> LeadingEqual(res.recv.elements, res.arg) = Len(res.recv.elements)
          /\ res.out <=> /\ Len(res.recv.elements) <= Len(res.arg)
                         /\ SubSeq(res.arg, 1, Len(res.recv.elements)) = res.recv.elements
          /\ Len(res.recv.elements) > Len(res.arg) => ~res.out

(* The foo / foo1 case: the only component of p is a proper byte prefix   *)
(* of the first component of q, and p is not a prefix of q.               *)
C11_Witness ==
    /\ res.op = "MPath::is_prefix_of"
    /\ res.recv.elements = <<MPathElement(<<DOT>>)>>
    /\ res.arg = <<MPathElement(<<DOT, DOT>>)>>
    /\ ~res.out

(* C12: p.take_prefix_components(n) returns None for n = 0; for           *)
(* 1 <= n <= p.num_components() a path of exactly the first n components  *)
(* of p, a prefix of p, and p itself when n = p.num_components(); and it  *)
(* fails for n > p.num_components().                                      *)
C12_TakePrefixComponents ==
    res.op = "MPath::take_prefix_components" =>
        LET p == res.recv
            n == res.arg
            num == Len(p.elements)
        IN  /\ n = 0 => res.out = Ok(None)
            /\ (1 <= n /\ n <= num) =>
                  /\ res.out.ok
                  /\ IsSome(res.out.val)
                  /\ Len(Unwrap(res.out.val).elements) = n
                  /\ \A i \in 1..n : Unwrap(res.out.val).elements[i] = p.elements[i]
                  /\ IsComponentPrefix(Unwrap(res.out.val), p)
                  /\ n = num => Unwrap(res.out.val) = p
                  /\ path = res.out.val
            /\ n > num => ~res.out.ok /\ res.out.val = <<>>

(* All of a two-component path with different components is taken. *)
C12_Witness ==
    /\ res.op = "MPath::take_prefix_components"
    /\ Len(res.recv.elements) = 2
    /\ res.recv.elements[1] # res.recv.elements[2]
    /\ res.arg = 2
    /\ res.out.ok

(* C13: for every constructed MPath p whose elements are all valid,      *)
(* MPath::new(p.to_vec()) succeeds and returns p.                         *)
C13_NewOfToVecIsIdentity ==
    (/\ res.op = "MPath::to_vec"
     /\ \A i \in 1..Len(res.recv.elements) : ValidElementBytes(res.recv.elements[i][1]))
        => MPath_new(res.out) = Ok(res.recv)

-----------------------------------------------------------------------------
(* Properties of join (checked under SpecJoin).                           *)

(* The positions of es that hold a non-empty element. *)
NonEmptyAt(es) == {i \in 1..Len(es) : Len(es[i][1]) > 0}

(* out is base followed by the non-empty elements of es, in order. *)
IsJoinOf(out, base, es) ==
    /\ Len(out) = Len(base) + Cardinality(NonEmptyAt(es))
    /\ \A i \in 1..Len(base) : out[i] = base[i]
    /\ \A i \in NonEmptyAt(es) :
          out[Len(base) + Cardinality({j \in NonEmptyAt(es) : j <= i})] = es[i]

(* C19: p.join(es) is a new path whose components are those of p and then *)
(* the non-empty elements of es in order, so p is a prefix of it and      *)
(* num_components grows by the number of non-empty elements;              *)
(* MPath::join_opt(None, es) is None exactly when es has no non-empty     *)
(* element, and otherwise the path of the non-empty elements of es.       *)
C19_JoinAppendsNonEmpty ==
    /\ res.op = "MPath::join" =>
          /\ IsJoinOf(res.out.elements, res.recv.elements, res.arg)
          /\ IsComponentPrefix(res.recv, res.out)
          /\ MPath_num_components(res.out)
                = MPath_num_components(res.recv) + Cardinality(NonEmptyAt(res.arg))
          /\ path = Some(res.out)
    /\ (res.op = "MPath::join_opt" /\ res.recv = None) =>
          /\ res.out = None <=> NonEmptyAt(res.arg) = {}
          /\ res.out # None => IsJoinOf(Unwrap(res.out).elements, <<>>, res.arg)
    /\ (res.op = "MPath::join_opt" /\ res.recv # None) =>
          /\ IsSome(res.out)
          /\ IsJoinOf(Unwrap(res.out).elements, Unwrap(res.recv).elements, res.arg)

(* A zero-length element between two different ones is skipped and the    *)
(* two keep their order.                                                  *)
C19_Witness ==
    /\ res.op = "MPath::join"
    /\ Len(res.arg) = 2
    /\ Len(res.arg[1][1]) = 0
    /\ Len(res.arg[2][1]) > 0
    /\ Len(res.out.elements) = Len(res.recv.elements) + 1

-----------------------------------------------------------------------------
(* Properties of the life of an MPathElement (checked under SpecElem).    *)

(* C16: after any sequence of MPathElement::new, from_thrift and extend   *)
(* calls, every MPathElement value satisfies the validation rules: it is  *)
(* non-empty and free of the bytes 0, 1, '/' and newline.                 *)
C16_ElementsStayValid ==
    IsSome(elem) => ValidElementBytes(Unwrap(elem)[1])

-----------------------------------------------------------------------------
(* Properties of RepoPath (checked under SpecRepo).                       *)

HowMany(flags) == Cardinality({i \in 1..Len(flags) : flags[i]})

(* C14: RepoPath::dir(x) and RepoPath::file(x) succeed exactly when       *)
(* MPath::new(x) does, fail with its error, and then carry that MPath     *)
(* under the right variant (an x that is an MPath already is carried as   *)
(* it is); root carries no MPath, its mpath() is None and its len() is 0; *)
(* two RepoPaths are equal iff they are the same variant over equal       *)
(* paths, so a directory never equals a file; exactly one of is_root,     *)
(* is_dir and is_file holds and is_tree holds iff is_root or is_dir.      *)
C14_RepoPathVariants ==
    /\ repo_res.op \in {"RepoPath::dir", "RepoPath::file"} =>
          LET x == repo_res.arg
              variant == IF repo_res.op = "RepoPath::dir" THEN "DirectoryPath" ELSE "FilePath"
              made == IF x.kind = "bytes" THEN MPath_new(x.val) ELSE Ok(x.val)
          IN  /\ repo_res.out.ok <=> made.ok
              /\ ~repo_res.out.ok => repo_res.out = made /\ repo = None
              /\ repo_res.out.ok =>
                    /\ repo_res.out.val.tag = variant
                    /\ repo_res.out.val.carried = Some(made.val)
                    /\ repo = Some(repo_res.out.val)
    /\ repo_res.op = "RepoPath::root" =>
          /\ repo_res.out.tag = "RootPath"
          /\ repo_res.out.carried = None
    /\ (repo_res.op = "RepoPath::mpath" /\ repo_res.recv.tag = "RootPath") =>
          repo_res.out = None
    /\ (repo_res.op = "RepoPath::mpath" /\ repo_res.recv.tag # "RootPath") =>
          repo_res.out = repo_res.recv.carried
    /\ (repo_res.op = "RepoPath::len" /\ repo_res.recv.tag = "RootPath") =>
          repo_res.out = Returned(0)
    /\ repo_res.op = "RepoPath::eq" =>
          /\ repo_res.out <=> /\ repo_res.recv.tag = repo_res.arg.tag
                              /\ repo_res.recv.carried = repo_res.arg.carried
          /\ {repo_res.recv.tag, repo_res.arg.tag} = {"DirectoryPath", "FilePath"}
                => ~repo_res.out
    /\ IsSome(repo) =>
          /\ HowMany(<<RepoPath_is_root(Unwrap(repo)), RepoPath_is_dir(Unwrap(repo)),
                       RepoPath_is_file(Unwrap(repo))>>) = 1
          /\ RepoPath_is_tree(Unwrap(repo)) <=>
                (RepoPath_is_root(Unwrap(repo)) \/ RepoPath_is_dir(Unwrap(repo)))
          /\ (Unwrap(repo).tag = "RootPath") <=> (Unwrap(repo).carried = None)
    /\ repo_res.op = "RepoPath::is_root" => (repo_res.out <=> repo_res.recv.tag = "RootPath")
    /\ repo_res.op = "RepoPath::is_dir" => (repo_res.out <=> repo_res.recv.tag = "DirectoryPath")
    /\ repo_res.op = "RepoPath::is_file" => (repo_res.out <=> repo_res.recv.tag = "FilePath")
    /\ repo_res.op = "RepoPath::is_tree" =>
          (repo_res.out <=> repo_res.recv.tag \in {"RootPath", "DirectoryPath"})

(* A file built from raw bytes is compared with the directory over the    *)
(* same path, and they differ.                                            *)
C14_Witness ==
    /\ repo_res.op = "RepoPath::eq"
    /\ repo_res.recv.tag = "FilePath"
    /\ repo_res.arg.tag = "DirectoryPath"
    /\ repo_res.recv.carried = repo_res.arg.carried
    /\ ~repo_res.out

-----------------------------------------------------------------------------
(* Properties of the changeset envelope (checked under SpecEnv).          *)

HashLenOk(h) == Len(h.wire) = Sha1Len
OptHashLenOk(o) == IsSome(o) => HashLenOk(Unwrap(o))
OptHashBytes(o) == IF IsSome(o) THEN Some(Unwrap(o).sha1) ELSE None
OptWireBytes(o) == IF IsSome(o) THEN Some(Unwrap(o).wire) ELSE None

(* C9: HgChangesetEnvelope::from_thrift fails when contents is absent,    *)
(* and when node_id or a present p1/p2 is not exactly Sha1Len bytes; it   *)
(* succeeds otherwise (empty contents included), and the envelope then    *)
(* carries exactly the given node_id, p1, p2 and contents.                *)
C9_FromThriftValidates ==
    env_res.op = "HgChangesetEnvelope::from_thrift" =>
        LET fe == env_res.arg
            wellFormed == /\ IsSome(fe.t_contents)
                          /\ HashLenOk(fe.t_node_id)
                          /\ OptHashLenOk(fe.t_p1)
                          /\ OptHashLenOk(fe.t_p2)
        IN  /\ env_res.out.ok <=> wellFormed
            /\ ~env_res.out.ok => env = None /\ env_res.out.val = <<>>
            /\ env_res.out.ok =>
                  /\ env = Some(env_res.out.val)
                  /\ env_res.out.val.inner.node_id.sha1 = fe.t_node_id.wire
                  /\ OptHashBytes(env_res.out.val.inner.p1) = OptWireBytes(fe.t_p1)
                  /\ OptHashBytes(env_res.out.val.inner.p2) = OptWireBytes(fe.t_p2)
                  /\ env_res.out.val.inner.contents = Unwrap(fe.t_contents)

(* Present but empty contents, one parent: decoding succeeds. *)
C9_Witness ==
    /\ env_res.op = "HgChangesetEnvelope::from_thrift"
    /\ env_res.arg.t_contents = Some(<<>>)
    /\ IsSome(env_res.arg.t_p1)
    /\ ~IsSome(env_res.arg.t_p2)
    /\ env_res.out.ok

(* C10: for every envelope e, from_thrift(into_thrift(e)) and             *)
(* from_blob(into_blob(e)) succeed and return e, p1 and p2 in place.      *)
C10_EnvelopeRoundTrip ==
    /\ env_res.op = "HgChangesetEnvelope::into_thrift" =>
          HgChangesetEnvelope_from_thrift(env_res.out) = Ok(env_res.recv)
    /\ env_res.op = "HgChangesetEnvelope::into_blob" =>
          HgChangesetEnvelope_from_blob(env_res.out) = Ok(env_res.recv)

(* An envelope with two different parents and contents that look like a   *)
(* stop byte goes through the blob.                                       *)
C10_Witness ==
    /\ env_res.op = "HgChangesetEnvelope::into_blob"
    /\ IsSome(env_res.recv.inner.p1)
    /\ IsSome(env_res.recv.inner.p2)
    /\ env_res.recv.inner.p1 # env_res.recv.inner.p2
    /\ env_res.recv.inner.contents = <<CT_STOP>>

InChain(chain, c) == \E i \in 1..Len(chain) : chain[i] = c

(* C17: from_blob decodes in two stages.  When the codec cannot frame the *)
(* bytes it fails with BlobDeserializeError("HgChangesetEnvelope") and    *)
(* from_thrift is not run; when framing succeeds but contents is absent   *)
(* or a hash has the wrong length it fails with                           *)
(* InvalidThrift("HgChangesetEnvelope", ...); it returns an envelope only *)
(* when both stages succeed, and then all four fields are the framed ones. *)
C17_FromBlobTwoStages ==
    env_res.op = "HgChangesetEnvelope::from_blob" =>
        LET framed == compact_protocol_deserialize(env_res.arg.blob)
            fe == framed.val
            wellFormed == /\ IsSome(fe.t_contents)
                          /\ HashLenOk(fe.t_node_id)
                          /\ OptHashLenOk(fe.t_p1)
                          /\ OptHashLenOk(fe.t_p2)
        IN  /\ ~framed.ok =>
                  /\ ~env_res.out.ok
                  /\ env_res.out.err[1] = "BlobDeserializeError: HgChangesetEnvelope"
                  /\ ~InChain(env_res.out.err, InvalidEnvelope)
            /\ (framed.ok /\ ~wellFormed) =>
                  /\ ~env_res.out.ok
                  /\ env_res.out.err[1] = InvalidEnvelope
                  /\ ~InChain(env_res.out.err, "BlobDeserializeError: HgChangesetEnvelope")
            /\ env_res.out.ok <=> (framed.ok /\ wellFormed)
            /\ ~env_res.out.ok => env = None /\ env_res.out.val = <<>>
            /\ env_res.out.ok =>
                  /\ env = Some(env_res.out.val)
                  /\ env_res.out.val.inner.node_id.sha1 = fe.t_node_id.wire
                  /\ OptHashBytes(env_res.out.val.inner.p1) = OptWireBytes(fe.t_p1)
                  /\ OptHashBytes(env_res.out.val.inner.p2) = OptWireBytes(fe.t_p2)
                  /\ env_res.out.val.inner.contents = Unwrap(fe.t_contents)

(* A blob that frames, with contents present, but a parent hash of the    *)
(* wrong length: the second stage fails.                                  *)
C17_Witness ==
    /\ env_res.op = "HgChangesetEnvelope::from_blob"
    /\ compact_protocol_deserialize(env_res.arg.blob).ok
    /\ IsSome(compact_protocol_deserialize(env_res.arg.blob).val.t_contents)
    /\ HashLenOk(compact_protocol_deserialize(env_res.arg.blob).val.t_node_id)
    /\ ~OptHashLenOk(compact_protocol_deserialize(env_res.arg.blob).val.t_p1)
    /\ ~env_res.out.ok

=============================================================================
